---- MODULE Spec2Model ----
(***************************************************************************)
(* Order-to-CRM synchronisation: the zohoRouter procedures of              *)
(* vintel-integration/src/server/api/routers/checkout.ts, run against the  *)
(* relational store (checkoutSession, zohoAccountLink, salesOrder) and the *)
(* remote Zoho CRM.  Every await of a procedure is one step of a request,  *)
(* so that requests interleave exactly where the handlers can.             *)
(***************************************************************************)
EXTENDS Integers, Sequences, FiniteSets, TLC

\* ------------------------------------------------------------------ bounds
MaxReq == 2              \* request slots: requests in flight at once
MaxContacts == 2         \* remote contacts the CRM accepts before refusing
MaxOrders == 2           \* remote sales orders the CRM accepts before refusing
MaxLinks == 2            \* signup link rows the store accepts before refusing
MaxTime == 2             \* days the clock runs

\* ------------------------------------------------------------------ domains
Categories == {"salesOrders", "deals", "tasks", "notes"}  \* optional parts of the CRM data
AllCats == {"contact"} \cup Categories
Principals == {"u1", "u2"}
Sessions == {"s1"}
None == "none"
NoId == 0

\* checkoutSession.userId: the principal that owns each session
owner == [s \in Sessions |-> "u1"]

Statuses == <<"created", "payment_completed", "contact_created", "sales_order_created">>

\* position of a status in the chain created -> ... -> sales_order_created
Rank(st) == CHOOSE k \in 1..Len(Statuses) : Statuses[k] = st

AgreementStatuses == {"pending", "completed", "declined"}

Slots == 1..MaxReq

VARIABLES
  status,          \* checkoutSession.status, per session
  companyInfo,     \* whether the session has a CompanyInfo row
  agreement,       \* agreement.status of the session, None when no agreement row
  zohoAccountLink, \* rows [userId, zohoUserId] of the identity-link table
  salesOrder,      \* rows [checkoutSessionId, zohoSalesOrderId] of the local table
  zohoContacts,    \* remote CRM: contact id k was created for principal zohoContacts[k]
  zohoSalesOrders, \* remote CRM: sales order id k was created for session zohoSalesOrders[k]
  req,             \* the requests in flight, one per slot
  everPaid,        \* history: the session has held status payment_completed
  okCalls,         \* history: createOrUpdateContact calls for the principal that returned success (0, 1, 2 or more)
  signupLink,      \* rows of the SignupLink table, in order of creation (row id = position)
  now,             \* the clock, in days
  validated        \* history: validateSignupLink calls on the row that returned success (0, 1, 2 or more)

vars == <<status, companyInfo, agreement, zohoAccountLink, salesOrder,
          zohoContacts, zohoSalesOrders, req, everPaid, okCalls,
          signupLink, now, validated>>

store == <<status, zohoAccountLink, salesOrder>>
remote == <<zohoContacts, zohoSalesOrders>>
env == <<companyInfo, agreement>>
hist == <<everPaid, okCalls>>
signup == <<signupLink, now, validated>>
checkout == <<store, remote, env, hist>>

Idle == [op |-> "idle", pc |-> "idle", caller |-> None, user |-> None, sid |-> None,
         existing |-> NoId, hasRow |-> FALSE, id |-> NoId, isUpdate |-> FALSE,
         ras |-> FALSE, rpc |-> FALSE, rcc |-> FALSE, code |-> None,
         zoho |-> NoId, login |-> None, expires |-> 0, link |-> NoId, count |-> 0,
         raised |-> None, msg |-> None,
         rok |-> FALSE, statusText |-> None,
         body |-> [parse |-> "none", keys |-> {}, message |-> None],
         inc |-> {}, fetched |-> [c \in AllCats |-> "none"],
         hasData |-> FALSE, data |-> [c \in AllCats |-> "empty"]]

InFlight == {i \in Slots : req[i].op # "idle"}

\* a new request takes the lowest free slot, while fewer than lim are in flight
FreeSlot(i, lim) ==
  /\ req[i].op = "idle"
  /\ \A j \in Slots : j < i => req[j].op # "idle"
  /\ Cardinality(InFlight) < lim

Done(r, c) == [Idle EXCEPT !.op = r.op, !.pc = "done", !.caller = r.caller, !.user = r.user,
                           !.sid = r.sid, !.ras = r.ras, !.rpc = r.rpc, !.rcc = r.rcc,
                           !.code = c]

Init ==
  /\ status = [s \in Sessions |-> "created"]
  /\ companyInfo = [s \in Sessions |-> FALSE]
  /\ agreement = [s \in Sessions |-> None]
  /\ zohoAccountLink = {}
  /\ salesOrder = {}
  /\ zohoContacts = <<>>
  /\ zohoSalesOrders = <<>>
  /\ req = [i \in Slots |-> Idle]
  /\ everPaid = [s \in Sessions |-> FALSE]
  /\ okCalls = [u \in Principals |-> 0]
  /\ signupLink = <<>>
  /\ now = 0
  /\ validated = [k \in 1..MaxLinks |-> 0]

\* ------------------------------------------------------------------ store
\* db.checkoutSession.findFirst({where: {id, userId}})
SessionFound(s, u) == owner[s] = u

LinkRows(u) == {r \in zohoAccountLink : r.userId = u}

FindLinkNever(links, u) == NoId

\* db.zohoAccountLink.findUnique({where: {userId}})?.zohoUserId
FindLink(links, u) ==
  IF \E r \in links : r.userId = u
  THEN (CHOOSE r \in links : r.userId = u).zohoUserId
  ELSE NoId

UpsertLinkBlind(links, u, id) == links \cup {[userId |-> u, zohoUserId |-> id]}

\* db.zohoAccountLink.upsert({where: {userId}, update: {zohoUserId}, create: {userId, zohoUserId}})
UpsertLink(links, u, id) ==
  IF \E r \in links : r.userId = u
  THEN {IF r.userId = u THEN [r EXCEPT !.zohoUserId = id] ELSE r : r \in links}
  ELSE links \cup {[userId |-> u, zohoUserId |-> id]}

OrderRows(s) == {r \in salesOrder : r.checkoutSessionId = s}

\* ------------------------------------------------------------------ environment
\* The rows the router reads are written by the checkout pages and by the payment
\* and e-signature integrations, whose code is not among these sources (the two
\* webhook routes that are, BillingWebhook and DocusignWebhook, write nothing).
SubmitCompanyInfo(s) ==
  /\ ~companyInfo[s]
  /\ companyInfo' = [companyInfo EXCEPT ![s] = TRUE]
  /\ UNCHANGED <<store, remote, agreement, req, hist, signup>>

AgreementEvent(s, a) ==
  /\ agreement[s] # a
  /\ agreement[s] # "completed"
  /\ agreement' = [agreement EXCEPT ![s] = a]
  /\ UNCHANGED <<store, remote, companyInfo, req, hist, signup>>

PaymentCompleted(s) ==
  /\ status[s] = "created"
  /\ status' = [status EXCEPT ![s] = "payment_completed"]
  /\ everPaid' = [everPaid EXCEPT ![s] = TRUE]
  /\ UNCHANGED <<zohoAccountLink, salesOrder, remote, env, req, okCalls, signup>>

RecordOrderAmount(s) ==
  /\ OrderRows(s) = {}
  /\ salesOrder' = salesOrder \cup {[checkoutSessionId |-> s, zohoSalesOrderId |-> NoId]}
  /\ UNCHANGED <<status, zohoAccountLink, remote, env, req, hist, signup>>

\* ------------------------------------------------------------------ createOrUpdateContact
ContactTarget(caller, userId) == IF userId = None THEN caller ELSE userId

ContactCheckNoAgreement(s, u, ras) ==
  IF ~SessionFound(s, u) THEN "NOT_FOUND"
  ELSE IF ~companyInfo[s] THEN "BAD_REQUEST"
  ELSE "OK"

\* steps 1-2: the session lookup and the company-info and agreement checks
ContactCheck(s, u, ras) ==
  IF ~SessionFound(s, u) THEN "NOT_FOUND"
  ELSE IF ~companyInfo[s] THEN "BAD_REQUEST"
  ELSE IF ras /\ agreement[s] # "completed" THEN "BAD_REQUEST"
  ELSE "OK"

StartContact(lim, i, caller, userId, s, ras) ==
  /\ FreeSlot(i, lim)
  /\ LET u == ContactTarget(caller, userId)
         c == ContactCheck(s, u, ras)
         r == [Idle EXCEPT !.op = "contact", !.caller = caller, !.user = u, !.sid = s,
                           !.ras = ras]
     IN req' = [req EXCEPT ![i] = IF c = "OK" THEN [r EXCEPT !.pc = "link"] ELSE Done(r, c)]
  /\ UNCHANGED <<store, remote, env, hist, signup>>

\* step 3: look the identity link up
ContactFindLink(i) ==
  /\ req[i].op = "contact" /\ req[i].pc = "link"
  /\ req' = [req EXCEPT ![i].existing = FindLink(zohoAccountLink, req[i].user),
                        ![i].pc = "remote"]
  /\ UNCHANGED <<store, remote, env, hist, signup>>

UseUpdateNever(existing) == FALSE

\* the branch of step 5: a link that holds a remote id means update
UseUpdate(existing) == existing # NoId

\* a remote step that, having created the contact, goes on to update it as well
ContactRemoteBoth(i, outcome) ==
  /\ req[i].op = "contact" /\ req[i].pc = "remote"
  /\ IF outcome # "ok"
     THEN /\ req' = [req EXCEPT ![i] = [Done(req[i], "INTERNAL_SERVER_ERROR")
                                          EXCEPT !.msg = outcome]]
          /\ UNCHANGED zohoContacts
     ELSE IF UseUpdate(req[i].existing)
     THEN /\ req' = [req EXCEPT ![i].id = req[i].existing, ![i].isUpdate = TRUE,
                                ![i].pc = "upsert"]
          /\ UNCHANGED zohoContacts
     ELSE /\ Len(zohoContacts) < MaxContacts
          /\ zohoContacts' = Append(zohoContacts, req[i].user)
          /\ req' = [req EXCEPT ![i].existing = Len(zohoContacts) + 1]
  /\ UNCHANGED <<store, zohoSalesOrders, env, hist, signup>>

\* an update path that stores an id other than the one the link held
ContactRemoteOtherId(i, outcome) ==
  /\ req[i].op = "contact" /\ req[i].pc = "remote"
  /\ IF outcome # "ok"
     THEN /\ req' = [req EXCEPT ![i] = [Done(req[i], "INTERNAL_SERVER_ERROR")
                                          EXCEPT !.msg = outcome]]
          /\ UNCHANGED zohoContacts
     ELSE IF UseUpdate(req[i].existing)
     THEN /\ req' = [req EXCEPT ![i].id = req[i].existing + 1, ![i].isUpdate = TRUE,
                                ![i].pc = "upsert"]
          /\ UNCHANGED zohoContacts
     ELSE /\ Len(zohoContacts) < MaxContacts
          /\ zohoContacts' = Append(zohoContacts, req[i].user)
          /\ req' = [req EXCEPT ![i].id = Len(zohoContacts) + 1, ![i].isUpdate = FALSE,
                                ![i].pc = "upsert"]
  /\ UNCHANGED <<store, zohoSalesOrders, env, hist, signup>>

ContactRemoteSwallow(i, outcome) ==
  /\ req[i].op = "contact" /\ req[i].pc = "remote"
  /\ IF outcome = "ok" /\ ~UseUpdate(req[i].existing)
     THEN /\ Len(zohoContacts) < MaxContacts
          /\ zohoContacts' = Append(zohoContacts, req[i].user)
          /\ req' = [req EXCEPT ![i].id = Len(zohoContacts) + 1, ![i].pc = "upsert"]
     ELSE /\ req' = [req EXCEPT ![i].id = IF outcome = "ok" THEN req[i].existing ELSE NoId,
                                ![i].isUpdate = UseUpdate(req[i].existing),
                                ![i].pc = "upsert"]
          /\ UNCHANGED zohoContacts
  /\ UNCHANGED <<store, zohoSalesOrders, env, hist, signup>>

\* step 5: update the stored remote contact, or create one
ContactRemote(i, outcome) ==
  /\ req[i].op = "contact" /\ req[i].pc = "remote"
  /\ IF outcome # "ok"
     THEN /\ req' = [req EXCEPT ![i] = [Done(req[i], "INTERNAL_SERVER_ERROR")
                                          EXCEPT !.msg = outcome]]
          /\ UNCHANGED zohoContacts
     ELSE IF UseUpdate(req[i].existing)
     THEN /\ req' = [req EXCEPT ![i].id = req[i].existing, ![i].isUpdate = TRUE,
                                ![i].pc = "upsert"]
          /\ UNCHANGED zohoContacts
     ELSE /\ Len(zohoContacts) < MaxContacts
          /\ zohoContacts' = Append(zohoContacts, req[i].user)
          /\ req' = [req EXCEPT ![i].id = Len(zohoContacts) + 1, ![i].isUpdate = FALSE,
                                ![i].pc = "upsert"]
  /\ UNCHANGED <<store, zohoSalesOrders, env, hist, signup>>

\* step 6: upsert the identity link
ContactUpsert(i, ok) ==
  /\ req[i].op = "contact" /\ req[i].pc = "upsert"
  /\ IF ok
     THEN /\ zohoAccountLink' = UpsertLink(zohoAccountLink, req[i].user, req[i].id)
          /\ req' = [req EXCEPT ![i].pc = "status"]
     ELSE /\ req' = [req EXCEPT ![i] = Done(req[i], "INTERNAL_SERVER_ERROR")]
          /\ UNCHANGED zohoAccountLink
  /\ UNCHANGED <<status, salesOrder, remote, env, hist, signup>>

\* step 7: write the session status and return
ContactStatus(i, ok) ==
  /\ req[i].op = "contact" /\ req[i].pc = "status"
  /\ IF ok
     THEN /\ status' = [status EXCEPT ![req[i].sid] = "contact_created"]
          /\ req' = [req EXCEPT ![i] = [Done(req[i], "OK") EXCEPT !.id = req[i].id,
                                           !.isUpdate = req[i].isUpdate,
                                           !.existing = req[i].existing]]
          /\ okCalls' = [okCalls EXCEPT ![req[i].user] = IF @ < 2 THEN @ + 1 ELSE @]
     ELSE /\ req' = [req EXCEPT ![i] = Done(req[i], "INTERNAL_SERVER_ERROR")]
          /\ UNCHANGED <<status, okCalls>>
  /\ UNCHANGED <<zohoAccountLink, salesOrder, remote, env, everPaid, signup>>

\* a payment gate that only turns away sessions still in status created
PaymentGateLoose(st, rpc) == rpc => st # "created"

\* ------------------------------------------------------------------ createSalesOrder
\* step 2: the payment requirement
PaymentGate(st, rpc) == rpc => st \in {"payment_completed", "contact_created"}

\* step 3: the contact requirement
ContactGate(st, rcc) == rcc => st = "contact_created"

OrderCheckNoGate(caller, s, rpc, rcc) ==
  IF ~SessionFound(s, caller) THEN "NOT_FOUND" ELSE "OK"

\* steps 1-3: the session lookup and the two status gates
OrderCheck(caller, s, rpc, rcc) ==
  IF ~SessionFound(s, caller) THEN "NOT_FOUND"
  ELSE IF ~PaymentGate(status[s], rpc) THEN "BAD_REQUEST"
  ELSE IF ~ContactGate(status[s], rcc) THEN "BAD_REQUEST"
  ELSE "OK"

StartOrder(lim, i, caller, s, rpc, rcc) ==
  /\ FreeSlot(i, lim)
  /\ LET c == OrderCheck(caller, s, rpc, rcc)
         r == [Idle EXCEPT !.op = "order", !.caller = caller, !.user = caller, !.sid = s,
                           !.rpc = rpc, !.rcc = rcc]
     IN req' = [req EXCEPT ![i] = IF c = "OK" THEN [r EXCEPT !.pc = "link"] ELSE Done(r, c)]
  /\ UNCHANGED <<store, remote, env, hist, signup>>

LinkMissingNever(z) == FALSE

\* the check of step 4: no link row, or a row without a remote id
LinkMissing(z) == z = NoId

\* step 4: the identity link of the caller
OrderFindLink(i) ==
  /\ req[i].op = "order" /\ req[i].pc = "link"
  /\ LET z == FindLink(zohoAccountLink, req[i].caller)
     IN req' = [req EXCEPT ![i] = IF LinkMissing(z) THEN Done(req[i], "NOT_FOUND")
                                  ELSE [req[i] EXCEPT !.existing = z, !.pc = "row"]]
  /\ UNCHANGED <<store, remote, env, hist, signup>>

\* step 5: the local sales order row, read for its amount
OrderFindRow(i) ==
  /\ req[i].op = "order" /\ req[i].pc = "row"
  /\ req' = [req EXCEPT ![i].hasRow = (OrderRows(req[i].sid) # {}), ![i].pc = "remote"]
  /\ UNCHANGED <<store, remote, env, hist, signup>>

OrderRemoteNoIdCheck(i, outcome) ==
  /\ req[i].op = "order" /\ req[i].pc = "remote"
  /\ IF outcome = "fail"
     THEN /\ req' = [req EXCEPT ![i] = [Done(req[i], "INTERNAL_SERVER_ERROR")
                                          EXCEPT !.msg = outcome]]
          /\ UNCHANGED zohoSalesOrders
     ELSE /\ Len(zohoSalesOrders) < MaxOrders
          /\ zohoSalesOrders' = Append(zohoSalesOrders, req[i].sid)
          /\ req' = [req EXCEPT ![i].id = IF outcome = "ok" THEN Len(zohoSalesOrders) + 1
                                          ELSE NoId,
                                ![i].msg = IF outcome = "ok" THEN None ELSE outcome,
                                ![i].pc = "status"]
  /\ UNCHANGED <<store, zohoContacts, env, hist, signup>>

\* step 7: create the sales order in the CRM
OrderRemote(i, outcome) ==
  /\ req[i].op = "order" /\ req[i].pc = "remote"
  /\ IF outcome # "ok"
     THEN /\ req' = [req EXCEPT ![i] = [Done(req[i], "INTERNAL_SERVER_ERROR")
                                          EXCEPT !.msg = outcome]]
          /\ UNCHANGED zohoSalesOrders
     ELSE /\ Len(zohoSalesOrders) < MaxOrders
          /\ zohoSalesOrders' = Append(zohoSalesOrders, req[i].sid)
          /\ req' = [req EXCEPT ![i].id = Len(zohoSalesOrders) + 1, ![i].pc = "status"]
  /\ UNCHANGED <<store, zohoContacts, env, hist, signup>>

\* step 8: write the session status
OrderStatus(i, ok) ==
  /\ req[i].op = "order" /\ req[i].pc = "status"
  /\ IF ok
     THEN /\ status' = [status EXCEPT ![req[i].sid] = "sales_order_created"]
          /\ req' = [req EXCEPT ![i].pc = "save"]
     ELSE /\ req' = [req EXCEPT ![i] = Done(req[i], "INTERNAL_SERVER_ERROR")]
          /\ UNCHANGED status
  /\ UNCHANGED <<zohoAccountLink, salesOrder, remote, env, hist, signup>>

UpdateOrderRowKeep(rows, s, id) == rows

\* db.salesOrder.update({where: {checkoutSessionId}, data: {zohoSalesOrderId}})
UpdateOrderRow(rows, s, id) ==
  {IF r.checkoutSessionId = s THEN [r EXCEPT !.zohoSalesOrderId = id] ELSE r : r \in rows}

\* db.salesOrder.create({data: {checkoutSessionId, zohoSalesOrderId, ...}})
CreateOrderRow(rows, s, id) == rows \cup {[checkoutSessionId |-> s, zohoSalesOrderId |-> id]}

CreateRefusedNever(rows, s) == FALSE

\* salesOrder rows are unique on checkoutSessionId (the key of findUnique and update):
\* the store refuses a create for a session that already has a row
CreateRefused(rows, s) == \E r \in rows : r.checkoutSessionId = s

\* step 9: update the row read in step 5, or create one; a create beside a row
\* written in the meantime is refused by the store
OrderSave(i, ok) ==
  /\ req[i].op = "order" /\ req[i].pc = "save"
  /\ LET r == req[i]
         refused == ~r.hasRow /\ CreateRefused(salesOrder, r.sid)
     IN IF ok /\ ~refused
        THEN /\ salesOrder' = IF r.hasRow THEN UpdateOrderRow(salesOrder, r.sid, r.id)
                              ELSE CreateOrderRow(salesOrder, r.sid, r.id)
             /\ req' = [req EXCEPT ![i] = [Done(r, "OK") EXCEPT !.id = r.id,
                                              !.existing = r.existing]]
        ELSE /\ req' = [req EXCEPT ![i] = Done(r, "INTERNAL_SERVER_ERROR")]
             /\ UNCHANGED salesOrder
  /\ UNCHANGED <<status, zohoAccountLink, remote, env, hist, signup>>

\* ------------------------------------------------------------------ createContactAndSalesOrder
\* first transaction: the session lookup and the contact preconditions
StartBoth(lim, i, caller, s, ras, rpc) ==
  /\ FreeSlot(i, lim)
  /\ LET c == ContactCheck(s, caller, ras)
         r == [Idle EXCEPT !.op = "both", !.caller = caller, !.user = caller, !.sid = s,
                           !.ras = ras, !.rpc = rpc]
     IN req' = [req EXCEPT ![i] = IF c = "OK" THEN [r EXCEPT !.pc = "tx2"] ELSE Done(r, c)]
  /\ UNCHANGED <<store, remote, env, hist, signup>>

\* a second transaction that does what the procedure is named after: on success it
\* records the session as having its sales order
BothSecondWrites(i) ==
  /\ req[i].op = "both" /\ req[i].pc = "tx2"
  /\ LET r == req[i]
         c == IF ~SessionFound(r.sid, r.caller) THEN "NOT_FOUND"
              ELSE IF ~PaymentGate(status[r.sid], r.rpc) THEN "BAD_REQUEST"
              ELSE "OK"
     IN /\ req' = [req EXCEPT ![i] = Done(r, c)]
        /\ status' = IF c = "OK" THEN [status EXCEPT ![r.sid] = "sales_order_created"]
                     ELSE status
  /\ UNCHANGED <<zohoAccountLink, salesOrder, remote, env, hist, signup>>

\* second transaction: the session lookup and the payment requirement
BothSecond(i) ==
  /\ req[i].op = "both" /\ req[i].pc = "tx2"
  /\ LET r == req[i]
         c == IF ~SessionFound(r.sid, r.caller) THEN "NOT_FOUND"
              ELSE IF ~PaymentGate(status[r.sid], r.rpc) THEN "BAD_REQUEST"
              ELSE "OK"
     IN req' = [req EXCEPT ![i] = Done(r, c)]
  /\ UNCHANGED <<store, remote, env, hist, signup>>

\* the response leaves the server
Respond(i) ==
  /\ req[i].pc = "done"
  /\ req' = [req EXCEPT ![i] = Idle]
  /\ UNCHANGED <<store, remote, env, hist, signup>>

\* ------------------------------------------------------------------ signup links
ZohoIds == {1, 2}            \* zoho_id inputs: remote contact ids
Codes == {"A", "B"}          \* values generateSecureLoginCode can return
ExpiresInDays == {0, 1}      \* expiresInDays inputs
UsageLimits == {<<>>, <<2>>}
AnyUsageLimits == {<<>>, <<-1>>, <<0>>}  \* usage_limit is any number: negative and zero pass the input schema  \* usage_limit inputs of createSignupLink, <<>> when omitted
LinkTtlDays == 7             \* lifetime of a link made by createSignupLink
DefaultUsageLimit == 1       \* usage_limit of generateSignupLink, and of createSignupLink when omitted

\* the codes the router throws as TRPCError; any other value is another exception
TRPCCodes == {"NOT_FOUND", "BAD_REQUEST", "INTERNAL_SERVER_ERROR"}

\* catch of the mutating and validating procedures: a TRPCError is thrown again,
\* anything else becomes INTERNAL_SERVER_ERROR
Rethrow(e) == IF e \in TRPCCodes THEN e ELSE "INTERNAL_SERVER_ERROR"

\* catch of getContactInfo and searchContacts: whatever was caught, a plain Error
\* with a fixed message is thrown
PlainThrow(e) == "ERROR"

\* a request that ended: its result code, the error raised inside it, the message
SDone(r, c, e, m) == [Done(r, c) EXCEPT !.zoho = r.zoho, !.login = r.login, !.link = r.link,
                                        !.count = r.count, !.existing = r.existing,
                                        !.raised = e, !.msg = m]

\* getZohoContact: the contact, null after a swallowed fetch exception, or the
\* TRPCError of handleZohoApiResponse; only an existing contact is returned
ContactOutcomes(z) == IF z \in DOMAIN zohoContacts THEN {"ok", "null", "error"}
                      ELSE {"null", "error"}

FindSignupLinkNever(rows, z, code) == NoId

\* db.signupLink.findFirst({where: {zoho_id, login_code}})?.id
FindSignupLink(rows, z, code) ==
  IF \E k \in DOMAIN rows : rows[k].zoho_id = z /\ rows[k].login_code = code
  THEN CHOOSE k \in DOMAIN rows :
         /\ rows[k].zoho_id = z /\ rows[k].login_code = code
         /\ \A j \in DOMAIN rows : rows[j].zoho_id = z /\ rows[j].login_code = code => k <= j
  ELSE NoId

ExpiredNever(row, t) == FALSE

\* signupLink.expires_at < new Date()
Expired(row, t) == row.expires_at < t

LimitReachedNever(row) == FALSE

\* signupLink.usage_count >= signupLink.usage_limit
LimitReached(row) == row.usage_count >= row.usage_limit

CodeTakenNever(rows, code) == FALSE

\* the unique index on login_code refuses a second row with the same code
CodeTaken(rows, code) == \E k \in DOMAIN rows : rows[k].login_code = code

NewLink(z, code, exp, lim) ==
  [zoho_id |-> z, login_code |-> code, expires_at |-> exp,
   usage_limit |-> lim, usage_count |-> 0, is_active |-> TRUE]

\* the clock advances by a day
Tick ==
  /\ now < MaxTime
  /\ now' = now + 1
  /\ UNCHANGED <<checkout, req, signupLink, validated>>

\* the clock advances by d days, up to a link lifetime past the last day of issue
Elapse(d) ==
  /\ now + d <= MaxTime + LinkTtlDays
  /\ now' = now + d
  /\ UNCHANGED <<checkout, req, signupLink, validated>>

\* a generateSignupLink that goes on to create the row when the lookup returned nothing
StartGenerateUnchecked(lim, i, caller, z, d, o, code) ==
  /\ FreeSlot(i, lim)
  /\ o \in ContactOutcomes(z)
  /\ LET r == [Idle EXCEPT !.op = "generate", !.caller = caller, !.zoho = z]
     IN req' = [req EXCEPT ![i] =
          IF o = "error"
          THEN SDone(r, Rethrow("INTERNAL_SERVER_ERROR"), "INTERNAL_SERVER_ERROR", "zoho")
          ELSE [r EXCEPT !.pc = "create", !.login = code, !.expires = now + d]]
  /\ UNCHANGED <<checkout, signup>>

\* generateSignupLink step 1 and 2: fetch the contact, draw the code, set the expiry
StartGenerate(lim, i, caller, z, d, o, code) ==
  /\ FreeSlot(i, lim)
  /\ o \in ContactOutcomes(z)
  /\ LET r == [Idle EXCEPT !.op = "generate", !.caller = caller, !.zoho = z]
     IN req' = [req EXCEPT ![i] =
          IF o = "null" THEN SDone(r, Rethrow("NOT_FOUND"), "NOT_FOUND", "no contact")
          ELSE IF o = "error"
          THEN SDone(r, Rethrow("INTERNAL_SERVER_ERROR"), "INTERNAL_SERVER_ERROR", "zoho")
          ELSE [r EXCEPT !.pc = "create", !.login = code, !.expires = now + d]]
  /\ UNCHANGED <<checkout, signup>>

\* generateSignupLink step 3: create the row
GenerateCreate(i) ==
  /\ req[i].op = "generate" /\ req[i].pc = "create"
  /\ LET r == req[i]
     IN IF CodeTaken(signupLink, r.login)
        THEN /\ req' = [req EXCEPT ![i] = SDone(r, Rethrow("Error"), "Error", "create")]
             /\ UNCHANGED signupLink
        ELSE /\ Len(signupLink) < MaxLinks
             /\ signupLink' = Append(signupLink,
                                     NewLink(r.zoho, r.login, r.expires, DefaultUsageLimit))
             /\ req' = [req EXCEPT ![i] =
                          SDone([r EXCEPT !.link = Len(signupLink) + 1], "OK", None, None)]
  /\ UNCHANGED <<checkout, now, validated>>

\* createSignupLink: one create, no contact lookup
CreateSignupLink(lim, i, caller, z, ul, code) ==
  /\ FreeSlot(i, lim)
  /\ LET r == [Idle EXCEPT !.op = "create", !.caller = caller, !.zoho = z, !.login = code]
     IN IF CodeTaken(signupLink, code)
        THEN /\ req' = [req EXCEPT ![i] = SDone(r, Rethrow("Error"), "Error", "create")]
             /\ UNCHANGED signupLink
        ELSE /\ Len(signupLink) < MaxLinks
             /\ signupLink' = Append(signupLink,
                                     NewLink(z, code, now + LinkTtlDays,
                                             IF ul = <<>> THEN DefaultUsageLimit ELSE ul[1]))
             /\ req' = [req EXCEPT ![i] =
                          SDone([r EXCEPT !.link = Len(signupLink) + 1], "OK", None, None)]
  /\ UNCHANGED <<checkout, now, validated>>

\* a validation that looks at the usage limit before the expiry
StartValidateLimitFirst(lim, i, caller, z, code) ==
  /\ FreeSlot(i, lim)
  /\ LET k == FindSignupLink(signupLink, z, code)
         r == [Idle EXCEPT !.op = "validate", !.caller = caller, !.zoho = z, !.login = code,
                           !.link = k,
                           !.count = IF k = NoId THEN 0 ELSE signupLink[k].usage_count]
     IN req' = [req EXCEPT ![i] =
          IF k = NoId THEN SDone(r, Rethrow("NOT_FOUND"), "NOT_FOUND", "no link")
          ELSE IF LimitReached(signupLink[k])
          THEN SDone(r, Rethrow("BAD_REQUEST"), "BAD_REQUEST", "limit")
          ELSE IF Expired(signupLink[k], now) THEN [r EXCEPT !.pc = "deactivate"]
          ELSE [r EXCEPT !.pc = "fetch"]]
  /\ UNCHANGED <<checkout, signup>>

\* validateSignupLink: the row lookup, the expiry check and the limit check
StartValidate(lim, i, caller, z, code) ==
  /\ FreeSlot(i, lim)
  /\ LET k == FindSignupLink(signupLink, z, code)
         r == [Idle EXCEPT !.op = "validate", !.caller = caller, !.zoho = z, !.login = code,
                           !.link = k,
                           !.count = IF k = NoId THEN 0 ELSE signupLink[k].usage_count]
     IN req' = [req EXCEPT ![i] =
          IF k = NoId THEN SDone(r, Rethrow("NOT_FOUND"), "NOT_FOUND", "no link")
          ELSE IF Expired(signupLink[k], now) THEN [r EXCEPT !.pc = "deactivate"]
          ELSE IF LimitReached(signupLink[k])
          THEN SDone(r, Rethrow("BAD_REQUEST"), "BAD_REQUEST", "limit")
          ELSE [r EXCEPT !.pc = "fetch"]]
  /\ UNCHANGED <<checkout, signup>>

\* validateSignupLink on an expired row: deactivate it, then throw
ValidateDeactivate(i) ==
  /\ req[i].op = "validate" /\ req[i].pc = "deactivate"
  /\ signupLink' = [signupLink EXCEPT ![req[i].link].is_active = FALSE]
  /\ req' = [req EXCEPT ![i] = SDone(req[i], Rethrow("BAD_REQUEST"), "BAD_REQUEST", "expired")]
  /\ UNCHANGED <<checkout, now, validated>>

\* validateSignupLink: fetch the contact of the row and return it
ValidateFetch(i, o) ==
  /\ req[i].op = "validate" /\ req[i].pc = "fetch"
  /\ o \in ContactOutcomes(signupLink[req[i].link].zoho_id)
  /\ LET r == req[i]
     IN /\ req' = [req EXCEPT ![i] =
              IF o = "null" THEN SDone(r, Rethrow("NOT_FOUND"), "NOT_FOUND", "no contact")
              ELSE IF o = "error"
              THEN SDone(r, Rethrow("INTERNAL_SERVER_ERROR"), "INTERNAL_SERVER_ERROR", "zoho")
              ELSE [SDone(r, "OK", None, None) EXCEPT !.id = signupLink[r.link].zoho_id]]
        /\ validated' = IF o = "ok" /\ validated[r.link] < 2
                        THEN [validated EXCEPT ![r.link] = @ + 1]
                        ELSE validated
  /\ UNCHANGED <<checkout, signupLink, now>>

\* getContactInfo: the identity link of the user asked for
StartInfo(lim, i, caller, userId) ==
  /\ FreeSlot(i, lim)
  /\ LET u == IF userId = None THEN caller ELSE userId
         z == FindLink(zohoAccountLink, u)
         r == [Idle EXCEPT !.op = "info", !.caller = caller, !.user = u, !.existing = z]
     IN req' = [req EXCEPT ![i] = IF z = NoId THEN SDone(r, "OK", None, None)
                                  ELSE [r EXCEPT !.pc = "fetch"]]
  /\ UNCHANGED <<checkout, signup>>

\* getContactInfo: fetch the contact; a null contact is returned as it is
InfoFetch(i, o) ==
  /\ req[i].op = "info" /\ req[i].pc = "fetch"
  /\ o \in ContactOutcomes(req[i].existing)
  /\ req' = [req EXCEPT ![i] =
       IF o = "error"
       THEN SDone(req[i], PlainThrow("INTERNAL_SERVER_ERROR"), "INTERNAL_SERVER_ERROR", "zoho")
       ELSE SDone(req[i], "OK", None, None)]
  /\ UNCHANGED <<checkout, signup>>

\* searchContacts: the criteria check and the remote search
SearchContacts(lim, i, caller, criteria, o) ==
  /\ FreeSlot(i, lim)
  /\ LET r == [Idle EXCEPT !.op = "search", !.caller = caller]
     IN req' = [req EXCEPT ![i] =
          IF ~criteria THEN SDone(r, PlainThrow("Error"), "Error", "no criteria")
          ELSE IF o = "error"
          THEN SDone(r, PlainThrow("INTERNAL_SERVER_ERROR"), "INTERNAL_SERVER_ERROR", "zoho")
          ELSE SDone(r, "OK", None, None)]
  /\ UNCHANGED <<checkout, signup>>

\* ------------------------------------------------------------------ getCRMData
\* a sub-fetch returns its value, returns nothing after a swallowed exception, or
\* throws the TRPCError of the response handler
FetchOutcomes == {"value", "empty", "error"}

ResolveInputOnly(zid, links, caller) == zid

\* step 1: the contact id of the input, else the one of the caller's identity link
Resolve(zid, links, caller) == IF zid # NoId THEN zid ELSE FindLink(links, caller)

CrmDataAllOrNothing(inc, o) ==
  [c \in AllCats |->
     IF \A x \in {"contact"} \cup inc : o[x] = "value" THEN "value" ELSE "empty"]

\* steps 3 to 7: each requested part holds what its own fetch returned, and stays
\* empty when the fetch threw or was not requested
CrmData(inc, o) ==
  [c \in AllCats |->
     IF (c = "contact" \/ c \in inc) /\ o[c] = "value" THEN "value" ELSE "empty"]

StartCrm(lim, i, caller, zid, inc) ==
  /\ FreeSlot(i, lim)
  /\ LET z == Resolve(zid, zohoAccountLink, caller)
         r == [Idle EXCEPT !.op = "crm", !.caller = caller, !.zoho = zid, !.inc = inc,
                           !.existing = z]
     IN req' = [req EXCEPT ![i] = IF z = NoId THEN [r EXCEPT !.pc = "done", !.code = "OK"]
                                  ELSE [r EXCEPT !.pc = "fetch"]]
  /\ UNCHANGED <<checkout, signup>>

CrmFetch(i, o) ==
  /\ req[i].op = "crm" /\ req[i].pc = "fetch"
  /\ req' = [req EXCEPT ![i].pc = "done", ![i].code = "OK", ![i].hasData = TRUE,
                        ![i].fetched = o, ![i].data = CrmData(req[i].inc, o)]
  /\ UNCHANGED <<checkout, signup>>

\* ------------------------------------------------------------------ webhooks
Payloads == {"malformed", "nodata", "event"}   \* request bodies of a webhook delivery
BillingEvents == {"payment_completed", "payment_failed"}
DocusignEvents == {"completed", "declined"}

\* a handler that writes the event's status into the session whatever it holds
BillingWebhookBlind(lim, i, p, ev, s) ==
  /\ FreeSlot(i, lim)
  /\ req' = [req EXCEPT ![i] =
       IF p = "event"
       THEN [Idle EXCEPT !.op = "billing", !.pc = "done", !.sid = s, !.msg = ev, !.code = "200"]
       ELSE [Idle EXCEPT !.op = "billing", !.pc = "done", !.raised = p, !.code = "500"]]
  /\ status' = IF p = "event" /\ ev = "payment_completed"
               THEN [status EXCEPT ![s] = "payment_completed"] ELSE status
  /\ UNCHANGED <<zohoAccountLink, salesOrder, remote, env, hist, signup>>

\* POST of the billing webhook: parse the body, log the event and its ids, answer
\* 200; a body that does not parse or has no data answers 500
BillingWebhook(lim, i, p, ev, s) ==
  /\ FreeSlot(i, lim)
  /\ req' = [req EXCEPT ![i] =
       IF p = "event"
       THEN [Idle EXCEPT !.op = "billing", !.pc = "done", !.sid = s, !.msg = ev, !.code = "200"]
       ELSE [Idle EXCEPT !.op = "billing", !.pc = "done", !.raised = p, !.code = "500"]]
  /\ UNCHANGED <<checkout, signup>>

\* a handler that answers 200 whatever happened to the payload
DocusignWebhookAlwaysOk(lim, i, p, ev, s) ==
  /\ FreeSlot(i, lim)
  /\ req' = [req EXCEPT ![i] =
       IF p = "event"
       THEN [Idle EXCEPT !.op = "docusign", !.pc = "done", !.sid = s, !.msg = ev, !.code = "200"]
       ELSE [Idle EXCEPT !.op = "docusign", !.pc = "done", !.raised = p, !.code = "200"]]
  /\ UNCHANGED <<checkout, signup>>

\* POST of the e-signature webhook: the same, for an envelope event
DocusignWebhook(lim, i, p, ev, s) ==
  /\ FreeSlot(i, lim)
  /\ req' = [req EXCEPT ![i] =
       IF p = "event"
       THEN [Idle EXCEPT !.op = "docusign", !.pc = "done", !.sid = s, !.msg = ev, !.code = "200"]
       ELSE [Idle EXCEPT !.op = "docusign", !.pc = "done", !.raised = p, !.code = "500"]]
  /\ UNCHANGED <<checkout, signup>>

\* ------------------------------------------------------------------ adapter
StatusTexts == {"Not Found", "Server Error"}   \* response.statusText
Messages == {"m1", "m2"}                       \* message values of a response body
ErrorKeys == {"code", "message", "status"}

\* what response.json() gives: it throws on an absent or unparsable body, or yields
\* null, a scalar, an array, or an object with some keys and perhaps a message
Bodies ==
  {[parse |-> p, keys |-> {}, message |-> None] :
     p \in {"absent", "unparsable", "null", "scalar", "array"}}
  \cup {[parse |-> "object", keys |-> k, message |-> None] :
          k \in {s \in SUBSET ErrorKeys : "message" \notin s}}
  \cup {[parse |-> "object", keys |-> k, message |-> m] :
          k \in {s \in SUBSET ErrorKeys : "message" \in s}, m \in Messages}

JsonThrows(b) == b.parse \in {"absent", "unparsable"}

\* typeof error === "object" && error !== null && "code" in error && ...
IsZohoErrorResponse(b) == b.parse \in {"object", "array"} /\ ErrorKeys \subseteq b.keys

\* !data || typeof data !== "object"
NotAnObject(b) == b.parse \in {"null", "scalar"}

\* handleZohoApiResponse: the TRPCError it throws ("zoho": Zoho API error with the
\* message, "format": invalid response format), the exception of response.json()
\* that escapes it, or the data it returns
HandleZohoApiResponse(ok, st, b) ==
  IF ~ok
  THEN [code |-> "INTERNAL_SERVER_ERROR", raised |-> "zoho",
        msg |-> IF ~JsonThrows(b) /\ IsZohoErrorResponse(b) THEN b.message ELSE st]
  ELSE IF JsonThrows(b) THEN [code |-> "ERROR", raised |-> "SyntaxError", msg |-> None]
  ELSE IF NotAnObject(b)
  THEN [code |-> "INTERNAL_SERVER_ERROR", raised |-> "format", msg |-> "Invalid response format"]
  ELSE [code |-> "OK", raised |-> None, msg |-> None]

\* a response of the CRM is handed to the handler
HandleResponse(i) ==
  /\ req[i].op = "handle" /\ req[i].pc = "response"
  /\ LET h == HandleZohoApiResponse(req[i].rok, req[i].statusText, req[i].body)
     IN req' = [req EXCEPT ![i].pc = "done", ![i].code = h.code, ![i].raised = h.raised,
                           ![i].msg = h.msg]
  /\ UNCHANGED <<checkout, signup>>

\* ------------------------------------------------------------------ specifications
Flags == BOOLEAN
Outcomes == {"ok", "noid", "fail"}
Outcomes3 == {"ok", "null", "error"}

\* requests served one at a time: each call returns before the next one starts
Next ==
  \/ \E s \in Sessions : SubmitCompanyInfo(s)
  \/ \E s \in Sessions, a \in AgreementStatuses : AgreementEvent(s, a)
  \/ \E s \in Sessions : PaymentCompleted(s)
  \/ \E s \in Sessions : RecordOrderAmount(s)
  \/ \E i \in Slots, c \in Principals, u \in Principals \cup {None}, s \in Sessions,
        ras \in Flags : StartContact(1, i, c, u, s, ras)
  \/ \E i \in Slots : ContactFindLink(i)
  \/ \E i \in Slots, o \in Outcomes : ContactRemote(i, o)
  \/ \E i \in Slots, ok \in BOOLEAN : ContactUpsert(i, ok)
  \/ \E i \in Slots, ok \in BOOLEAN : ContactStatus(i, ok)
  \/ \E i \in Slots, c \in Principals, s \in Sessions, rpc \in Flags, rcc \in Flags :
        StartOrder(1, i, c, s, rpc, rcc)
  \/ \E i \in Slots : OrderFindLink(i)
  \/ \E i \in Slots : OrderFindRow(i)
  \/ \E i \in Slots, o \in Outcomes : OrderRemote(i, o)
  \/ \E i \in Slots, ok \in BOOLEAN : OrderStatus(i, ok)
  \/ \E i \in Slots, ok \in BOOLEAN : OrderSave(i, ok)
  \/ \E i \in Slots, c \in Principals, s \in Sessions, ras \in Flags, rpc \in Flags :
        StartBoth(1, i, c, s, ras, rpc)
  \/ \E i \in Slots : BothSecond(i)
  \/ \E i \in Slots : Respond(i)

Spec == Init /\ [][Next]_vars

\* the steps of a call in flight; a handler that has started an await resumes when the
\* awaited read, write or remote round trip settles, so these steps are eventually taken
StepNext ==
  \/ \E i \in Slots : ContactFindLink(i)
  \/ \E i \in Slots, o \in Outcomes : ContactRemote(i, o)
  \/ \E i \in Slots, ok \in BOOLEAN : ContactUpsert(i, ok)
  \/ \E i \in Slots, ok \in BOOLEAN : ContactStatus(i, ok)
  \/ \E i \in Slots : OrderFindLink(i)
  \/ \E i \in Slots : OrderFindRow(i)
  \/ \E i \in Slots, o \in Outcomes : OrderRemote(i, o)
  \/ \E i \in Slots, ok \in BOOLEAN : OrderStatus(i, ok)
  \/ \E i \in Slots, ok \in BOOLEAN : OrderSave(i, ok)
  \/ \E i \in Slots : BothSecond(i)

FairSpec == Init /\ [][Next]_vars /\ WF_vars(StepNext)

\* createOrUpdateContact and createSalesOrder called with their default inputs only:
\* no userId, requireAgreementSigned, requirePaymentConfirmed and requireContactCreated
\* all true
DefaultNext ==
  \/ \E s \in Sessions : SubmitCompanyInfo(s)
  \/ \E s \in Sessions, a \in AgreementStatuses : AgreementEvent(s, a)
  \/ \E s \in Sessions : PaymentCompleted(s)
  \/ \E s \in Sessions : RecordOrderAmount(s)
  \/ \E i \in Slots, c \in Principals, s \in Sessions : StartContact(1, i, c, None, s, TRUE)
  \/ \E i \in Slots : ContactFindLink(i)
  \/ \E i \in Slots, o \in Outcomes : ContactRemote(i, o)
  \/ \E i \in Slots, ok \in BOOLEAN : ContactUpsert(i, ok)
  \/ \E i \in Slots, ok \in BOOLEAN : ContactStatus(i, ok)
  \/ \E i \in Slots, c \in Principals, s \in Sessions : StartOrder(1, i, c, s, TRUE, TRUE)
  \/ \E i \in Slots : OrderFindLink(i)
  \/ \E i \in Slots : OrderFindRow(i)
  \/ \E i \in Slots, o \in Outcomes : OrderRemote(i, o)
  \/ \E i \in Slots, ok \in BOOLEAN : OrderStatus(i, ok)
  \/ \E i \in Slots, ok \in BOOLEAN : OrderSave(i, ok)
  \/ \E i \in Slots : Respond(i)

DefaultSpec == Init /\ [][DefaultNext]_vars

\* concurrent createOrUpdateContact requests: up to MaxReq calls in flight, with
\* their default inputs, on sessions whose company info and agreement are in place
ConcInit ==
  /\ status = [s \in Sessions |-> "created"]
  /\ companyInfo = [s \in Sessions |-> TRUE]
  /\ agreement = [s \in Sessions |-> "completed"]
  /\ zohoAccountLink = {}
  /\ salesOrder = {}
  /\ zohoContacts = <<>>
  /\ zohoSalesOrders = <<>>
  /\ req = [i \in Slots |-> Idle]
  /\ everPaid = [s \in Sessions |-> FALSE]
  /\ okCalls = [u \in Principals |-> 0]
  /\ signupLink = <<>>
  /\ now = 0
  /\ validated = [k \in 1..MaxLinks |-> 0]

ConcNext ==
  \/ \E s \in Sessions : PaymentCompleted(s)
  \/ \E i \in Slots, c \in Principals, s \in Sessions : StartContact(MaxReq, i, c, None, s, TRUE)
  \/ \E i \in Slots : ContactFindLink(i)
  \/ \E i \in Slots, o \in Outcomes : ContactRemote(i, o)
  \/ \E i \in Slots, ok \in BOOLEAN : ContactUpsert(i, ok)
  \/ \E i \in Slots, ok \in BOOLEAN : ContactStatus(i, ok)
  \/ \E i \in Slots : Respond(i)

ConcSpec == ConcInit /\ [][ConcNext]_vars

\* concurrent createSalesOrder requests: up to MaxReq calls of the owner in flight,
\* with both requirement flags set or both cleared, on sessions whose owner has
\* synchronised its contact (status contact_created, link in place)
OrderConcInit ==
  /\ status = [s \in Sessions |-> "contact_created"]
  /\ companyInfo = [s \in Sessions |-> TRUE]
  /\ agreement = [s \in Sessions |-> "completed"]
  /\ zohoAccountLink = {[userId |-> "u1", zohoUserId |-> 1]}
  /\ salesOrder = {}
  /\ zohoContacts = <<"u1">>
  /\ zohoSalesOrders = <<>>
  /\ req = [i \in Slots |-> Idle]
  /\ everPaid = [s \in Sessions |-> TRUE]
  /\ okCalls = [u \in Principals |-> IF u = "u1" THEN 1 ELSE 0]
  /\ signupLink = <<>>
  /\ now = 0
  /\ validated = [k \in 1..MaxLinks |-> 0]

OrderConcNext ==
  \/ \E s \in Sessions : RecordOrderAmount(s)
  \/ \E i \in Slots, s \in Sessions, f \in Flags : StartOrder(MaxReq, i, owner[s], s, f, f)
  \/ \E i \in Slots : OrderFindLink(i)
  \/ \E i \in Slots : OrderFindRow(i)
  \/ \E i \in Slots, o \in Outcomes : OrderRemote(i, o)
  \/ \E i \in Slots, ok \in BOOLEAN : OrderStatus(i, ok)
  \/ \E i \in Slots, ok \in BOOLEAN : OrderSave(i, ok)
  \/ \E i \in Slots : Respond(i)

OrderConcSpec == OrderConcInit /\ [][OrderConcNext]_vars

\* the signup-link and contact-read procedures, served one at a time, on a store
\* where u1 is linked to remote contact 1 and no signup link was issued yet
SignupInit == OrderConcInit

SignupNext ==
  \/ Tick
  \/ \E i \in Slots, z \in ZohoIds, d \in ExpiresInDays, o \in Outcomes3, code \in Codes :
        StartGenerate(1, i, "u1", z, d, o, code)
  \/ \E i \in Slots : GenerateCreate(i)
  \/ \E i \in Slots, z \in ZohoIds, ul \in UsageLimits, code \in Codes :
        CreateSignupLink(1, i, "u1", z, ul, code)
  \/ \E i \in Slots, z \in ZohoIds, code \in Codes : StartValidate(1, i, "u1", z, code)
  \/ \E i \in Slots : ValidateDeactivate(i)
  \/ \E i \in Slots, o \in Outcomes3 : ValidateFetch(i, o)
  \/ \E i \in Slots, c \in Principals, u \in Principals \cup {None} : StartInfo(1, i, c, u)
  \/ \E i \in Slots, o \in Outcomes3 : InfoFetch(i, o)
  \/ \E i \in Slots, cr \in BOOLEAN, o \in Outcomes3 : SearchContacts(1, i, "u1", cr, o)
  \/ \E i \in Slots : Respond(i)

SignupSpec == SignupInit /\ [][SignupNext]_vars

\* concurrent validateSignupLink requests: up to MaxReq calls in flight on links
\* issued by generateSignupLink for remote contact 1
SignupConcNext ==
  \/ Tick
  \/ \E i \in Slots, d \in ExpiresInDays : StartGenerate(MaxReq, i, "u1", 1, d, "ok", "A")
  \/ \E i \in Slots : GenerateCreate(i)
  \/ \E i \in Slots : StartValidate(MaxReq, i, "u1", 1, "A")
  \/ \E i \in Slots : ValidateDeactivate(i)
  \/ \E i \in Slots, o \in Outcomes3 : ValidateFetch(i, o)
  \/ \E i \in Slots : Respond(i)

SignupConcSpec == SignupInit /\ [][SignupConcNext]_vars

\* issuance and validation of signup links for remote contact 1, one call at a
\* time: links of zero and of seven days, usage limits below one
IssueNext ==
  \/ Tick
  \/ \E i \in Slots, d \in {0, LinkTtlDays}, o \in Outcomes3, code \in Codes :
        StartGenerate(1, i, "u1", 1, d, o, code)
  \/ \E i \in Slots : GenerateCreate(i)
  \/ \E i \in Slots, ul \in AnyUsageLimits, code \in Codes :
        CreateSignupLink(1, i, "u1", 1, ul, code)
  \/ \E i \in Slots, code \in Codes : StartValidate(1, i, "u1", 1, code)
  \/ \E i \in Slots : ValidateDeactivate(i)
  \/ \E i \in Slots, o \in Outcomes3 : ValidateFetch(i, o)
  \/ \E i \in Slots : Respond(i)

IssueSpec == SignupInit /\ [][IssueNext]_vars

\* validation of links created by createSignupLink, over the whole lifetime of a link
ExpiryNext ==
  \/ \E d \in {1, LinkTtlDays} : Elapse(d)
  \/ \E i \in Slots, ul \in {<<>>, <<0>>}, code \in Codes :
        CreateSignupLink(1, i, "u1", 1, ul, code)
  \/ \E i \in Slots, code \in Codes : StartValidate(1, i, "u1", 1, code)
  \/ \E i \in Slots : ValidateDeactivate(i)
  \/ \E i \in Slots, o \in Outcomes3 : ValidateFetch(i, o)
  \/ \E i \in Slots : Respond(i)

ExpirySpec == SignupInit /\ [][ExpiryNext]_vars

\* concurrent issuance: up to MaxReq generateSignupLink and createSignupLink calls
\* in flight, whose generated codes may coincide
IssueConcNext ==
  \/ \E i \in Slots, z \in ZohoIds, code \in Codes :
        StartGenerate(MaxReq, i, "u1", z, LinkTtlDays, "ok", code)
  \/ \E i \in Slots : GenerateCreate(i)
  \/ \E i \in Slots, z \in ZohoIds, code \in Codes :
        CreateSignupLink(MaxReq, i, "u1", z, <<>>, code)
  \/ \E i \in Slots : Respond(i)

IssueConcSpec == SignupInit /\ [][IssueConcNext]_vars

\* the aggregated read, one call at a time, on a store where only u1 is linked
CrmNext ==
  \/ \E i \in Slots, c \in Principals, zid \in {NoId} \cup ZohoIds, inc \in SUBSET Categories :
        StartCrm(1, i, c, zid, inc)
  \/ \E i \in Slots, o \in [AllCats -> FetchOutcomes] : CrmFetch(i, o)
  \/ \E i \in Slots : Respond(i)

CrmSpec == SignupInit /\ [][CrmNext]_vars

\* webhook deliveries, one at a time, beside the writers of the rows they concern
EventNext ==
  \/ \E s \in Sessions : SubmitCompanyInfo(s)
  \/ \E s \in Sessions, a \in AgreementStatuses : AgreementEvent(s, a)
  \/ \E s \in Sessions : PaymentCompleted(s)
  \/ \E s \in Sessions : RecordOrderAmount(s)
  \/ \E i \in Slots, p \in Payloads, ev \in BillingEvents, s \in Sessions :
        BillingWebhook(1, i, p, ev, s)
  \/ \E i \in Slots, p \in Payloads, ev \in DocusignEvents, s \in Sessions :
        DocusignWebhook(1, i, p, ev, s)
  \/ \E i \in Slots : Respond(i)

\* deliveries arrive before and after the contact has been synchronised
EventInit == Init \/ OrderConcInit

EventSpec == EventInit /\ [][EventNext]_vars

\* the response handler applied to every response: status, status text and body
AdapterInit ==
  /\ status = [s \in Sessions |-> "created"]
  /\ companyInfo = [s \in Sessions |-> FALSE]
  /\ agreement = [s \in Sessions |-> None]
  /\ zohoAccountLink = {}
  /\ salesOrder = {}
  /\ zohoContacts = <<>>
  /\ zohoSalesOrders = <<>>
  /\ everPaid = [s \in Sessions |-> FALSE]
  /\ okCalls = [u \in Principals |-> 0]
  /\ signupLink = <<>>
  /\ now = 0
  /\ validated = [k \in 1..MaxLinks |-> 0]
  /\ \E ok \in BOOLEAN, st \in StatusTexts, b \in Bodies :
       req = [i \in Slots |->
                IF i = 1 THEN [Idle EXCEPT !.op = "handle", !.pc = "response", !.rok = ok,
                                           !.statusText = st, !.body = b]
                ELSE Idle]

AdapterNext ==
  \/ \E i \in Slots : HandleResponse(i)
  \/ \E i \in Slots : Respond(i)

AdapterSpec == AdapterInit /\ [][AdapterNext]_vars
\* ------------------------------------------------------------------ properties
\* the remote contacts created for a principal
ContactsOf(u) == {k \in DOMAIN zohoContacts : zohoContacts[k] = u}

\* the remote id the identity link of a principal holds, NoId without a link
StoredId(u) == IF LinkRows(u) = {} THEN NoId ELSE (CHOOSE r \in LinkRows(u) : TRUE).zohoUserId

Returned(r, op) == r.op = op /\ r.pc = "done" /\ r.code = "OK"

\* a step that takes request i from arrival through its first lookup and checks
Arrives(i, op) == req[i].op = "idle" /\ req'[i].op = op

\* C1: no step moves a session's status to an earlier stage of the chain
\* created -> payment_completed -> contact_created -> sales_order_created.
C1_StatusNeverRegresses ==
  [][\A s \in Sessions : Rank(status'[s]) >= Rank(status[s])]_vars

\* C2: after a successful createOrUpdateContact for a principal there is exactly one
\* identity link row for it, and a second successful call reports isUpdate = TRUE.
C2_SecondCallIsUpdate ==
  /\ \A u \in Principals : okCalls[u] >= 1 => Cardinality(LinkRows(u)) = 1
  /\ \A i \in Slots :
       Returned(req[i], "contact") /\ okCalls[req[i].user] = 2 => req[i].isUpdate

C2_Witness ==
  \E i \in Slots : /\ Returned(req[i], "contact")
                   /\ okCalls[req[i].user] = 2
                   /\ req[i].isUpdate
                   /\ Cardinality(LinkRows(req[i].user)) = 1

\* C3: under sequential invocation, failed and retried calls included, at most one
\* remote contact create succeeds for a principal.
C3_AtMostOneCreate ==
  \A u \in Principals : Cardinality(ContactsOf(u)) <= 1

\* C4: two createOrUpdateContact requests in flight for the same principal never
\* both create a remote contact.
C4_NoConcurrentDoubleCreate ==
  \A i, j \in Slots :
    (i # j /\ req[i].op = "contact" /\ req[j].op = "contact" /\ req[i].user = req[j].user)
      => ~(/\ req[i].pc \in {"upsert", "status"} /\ ~req[i].isUpdate
           /\ req[j].pc \in {"upsert", "status"} /\ ~req[j].isUpdate)

\* C5: createOrUpdateContact updates the stored remote id when the principal's link
\* holds one (isUpdate = TRUE, same id) and creates otherwise (isUpdate = FALSE, the
\* link then holds the id the CRM returned); on success the status is contact_created.
C5_LinkDecidesRemoteCall ==
  \A i \in Slots :
    LET r == req[i]
        past == r.pc \in {"upsert", "status"} \/ Returned(r, "contact")
    IN r.op = "contact" =>
         /\ r.pc = "remote" => r.existing = StoredId(r.user)
         /\ past => /\ r.isUpdate <=> r.existing # NoId
                    /\ r.isUpdate => r.id = r.existing
                    /\ ~r.isUpdate => r.id \in ContactsOf(r.user)
         /\ (r.pc = "status" \/ Returned(r, "contact"))
              => LinkRows(r.user) = {[userId |-> r.user, zohoUserId |-> r.id]}
         /\ Returned(r, "contact") => status[r.sid] = "contact_created"

C5_Witness ==
  \E i \in Slots : /\ Returned(req[i], "contact")
                   /\ req[i].isUpdate
                   /\ req[i].id = req[i].existing
                   /\ req[i].id \in ContactsOf(req[i].user)
                   /\ status[req[i].sid] = "contact_created"

\* C6: every principal has at most one identity link row, whatever the interleaving
\* of createOrUpdateContact requests.
C6_OneLinkPerPrincipal ==
  \A u \in Principals : Cardinality(LinkRows(u)) <= 1

C6_Witness ==
  \E i, j \in Slots :
    /\ i # j /\ req[i].op = "contact" /\ req[j].op = "contact"
    /\ req[i].user = req[j].user
    /\ req[i].pc = "status" /\ req[j].pc = "status"
    /\ req[i].id # req[j].id
    /\ Cardinality(LinkRows(req[i].user)) = 1

\* C7: a createOrUpdateContact call on a session without company info, or with
\* requireAgreementSigned and an agreement absent or not completed, ends with
\* BAD_REQUEST in the step that looked the session up: no remote call, and the
\* session status and the identity links are unchanged.
C7_PreconditionFailed ==
  [][\A i \in Slots :
       (/\ Arrives(i, "contact")
        /\ SessionFound(req'[i].sid, req'[i].user)
        /\ \/ ~companyInfo[req'[i].sid]
           \/ req'[i].ras /\ agreement[req'[i].sid] # "completed")
         => /\ req'[i].pc = "done" /\ req'[i].code = "BAD_REQUEST"
            /\ UNCHANGED <<status, zohoAccountLink, salesOrder, zohoContacts, zohoSalesOrders>>]_vars

C7_Witness ==
  \E i \in Slots : /\ req[i].op = "contact" /\ req[i].pc = "done"
                   /\ req[i].code = "BAD_REQUEST"
                   /\ req[i].ras
                   /\ companyInfo[req[i].sid]
                   /\ agreement[req[i].sid] \in {None, "pending", "declined"}

\* C8: a createOrUpdateContact request on a session its caller does not own ends
\* with NOT_FOUND, and none of its steps changes a session status or an identity link.
C8_ForeignSessionNotFound ==
  [][\A i \in Slots :
       (/\ req'[i].op = "contact"
        /\ req'[i] # req[i]
        /\ owner[req'[i].sid] # req'[i].caller)
         => /\ UNCHANGED <<status, zohoAccountLink>>
            /\ req'[i].pc = "done" /\ req'[i].code = "NOT_FOUND"]_vars

\* C9 as stated: createSalesOrder on a session of the caller in status created ends
\* with BAD_REQUEST, whatever its flags.
C9_CreatedFailsAnyFlags ==
  [][\A i \in Slots :
       (/\ Arrives(i, "order")
        /\ SessionFound(req'[i].sid, req'[i].caller)
        /\ status[req'[i].sid] = "created")
         => req'[i].pc = "done" /\ req'[i].code = "BAD_REQUEST"]_vars

\* C9 amended: createSalesOrder with requirePaymentConfirmed or requireContactCreated
\* set, on a session of the caller in status created, ends with BAD_REQUEST in the
\* step that looked the session up: no remote call, nothing written, and the session
\* has no sales order row carrying a remote id.
C9_CreatedFailsWhenGated ==
  [][\A i \in Slots :
       (/\ Arrives(i, "order")
        /\ SessionFound(req'[i].sid, req'[i].caller)
        /\ status[req'[i].sid] = "created"
        /\ req'[i].rpc \/ req'[i].rcc)
         => /\ req'[i].pc = "done" /\ req'[i].code = "BAD_REQUEST"
            /\ UNCHANGED <<status, zohoAccountLink, salesOrder, zohoContacts, zohoSalesOrders>>
            /\ \A r \in salesOrder' :
                 r.checkoutSessionId = req'[i].sid => r.zohoSalesOrderId = NoId]_vars

C9_Witness ==
  \E i \in Slots : /\ req[i].op = "order" /\ req[i].pc = "done"
                   /\ req[i].code = "BAD_REQUEST"
                   /\ SessionFound(req[i].sid, req[i].caller)
                   /\ status[req[i].sid] = "created"
                   /\ req[i].rcc /\ ~req[i].rpc
                   /\ OrderRows(req[i].sid) # {}

\* C10: a createSalesOrder call with requirePaymentConfirmed that has written
\* sales_order_created did so on a session that once held payment_completed.
C10_OrderOnlyAfterPayment ==
  \A i \in Slots :
    (req[i].op = "order" /\ req[i].rpc /\ (req[i].pc = "save" \/ Returned(req[i], "order")))
      => everPaid[req[i].sid]

\* the remote sales orders created for a session
OrdersOf(s) == {k \in DOMAIN zohoSalesOrders : zohoSalesOrders[k] = s}

\* no call is part-way through its steps
AtRest == \A i \in Slots : req[i].pc \in {"idle", "done"}

\* C11: a createSalesOrder call whose caller has no identity link (or one without a
\* remote id) ends with NOT_FOUND in the step that looked the link up: no remote
\* sales-order call, and session status and sales order rows are unchanged.
C11_OrderNeedsLink ==
  [][\A i \in Slots :
       (/\ req[i].op = "order" /\ req[i].pc = "link"
        /\ req'[i] # req[i]
        /\ StoredId(req[i].caller) = NoId)
         => /\ req'[i].pc = "done" /\ req'[i].code = "NOT_FOUND"
            /\ UNCHANGED <<status, salesOrder, zohoAccountLink, zohoContacts, zohoSalesOrders>>]_vars

C11_Witness ==
  \E i \in Slots : /\ req[i].op = "order" /\ req[i].pc = "done"
                   /\ req[i].code = "NOT_FOUND"
                   /\ SessionFound(req[i].sid, req[i].caller)
                   /\ StoredId(req[i].caller) = NoId
                   /\ zohoSalesOrders = <<>>

\* C12: when createSalesOrder has returned success, the session status is
\* sales_order_created and the single sales order row of the session holds the id
\* the CRM returned for it.
C12_OrderSuccessSaved ==
  \A i \in Slots :
    Returned(req[i], "order") =>
      /\ status[req[i].sid] = "sales_order_created"
      /\ req[i].id \in OrdersOf(req[i].sid)
      /\ OrderRows(req[i].sid) =
           {[checkoutSessionId |-> req[i].sid, zohoSalesOrderId |-> req[i].id]}

C12_Witness ==
  \E i \in Slots : /\ Returned(req[i], "order")
                   /\ req[i].id = 2
                   /\ OrderRows(req[i].sid) =
                        {[checkoutSessionId |-> req[i].sid, zohoSalesOrderId |-> 2]}

\* C13: a checkout session never has more than one local sales order row, however
\* createSalesOrder calls for it interleave.
C13_OneOrderRowPerSession ==
  \A s \in Sessions : Cardinality(OrderRows(s)) <= 1

\* two calls created remote orders 1 and 2 side by side; one saved its row, the
\* other's create was refused
C13_Witness ==
  \E i, j \in Slots :
    /\ i # j
    /\ Returned(req[i], "order")
    /\ req[j].op = "order" /\ req[j].pc = "done" /\ req[j].code = "INTERNAL_SERVER_ERROR"
    /\ req[i].sid = req[j].sid
    /\ Cardinality(OrdersOf(req[i].sid)) = 2
    /\ Cardinality(OrderRows(req[i].sid)) = 1

\* C14: once every call has ended, a session in status sales_order_created has a
\* sales order row with a remote id (a failed call leaves the status it found).
C14_NoPartialCommit ==
  \A s \in Sessions :
    (AtRest /\ status[s] = "sales_order_created")
      => \E r \in OrderRows(s) : r.zohoSalesOrderId # NoId

\* C15: a step that writes contact_created (sales_order_created) is taken by a
\* createOrUpdateContact (createSalesOrder) request that already holds the id of its
\* successful remote contact call (remote sales order create).
C15_RemoteBeforeStatus ==
  [][\A s \in Sessions :
       status'[s] # status[s] =>
         /\ status'[s] = "contact_created" =>
              \E i \in Slots : /\ req[i].op = "contact" /\ req[i].pc = "status"
                               /\ req[i].sid = s /\ req'[i] # req[i]
                               /\ req[i].id \in ContactsOf(req[i].user)
         /\ status'[s] = "sales_order_created" =>
              \E i \in Slots : /\ req[i].op = "order" /\ req[i].pc = "status"
                               /\ req[i].sid = s /\ req'[i] # req[i]
                               /\ req[i].id \in OrdersOf(s)]_vars

C15_Witness ==
  \E i \in Slots : /\ req[i].op = "order" /\ req[i].pc = "save"
                   /\ status[req[i].sid] = "sales_order_created"
                   /\ req[i].id \in OrdersOf(req[i].sid)
                   /\ \E k \in ContactsOf(req[i].caller) : k = req[i].existing

\* C16: an error raised inside a procedure as a TRPCError (NOT_FOUND, BAD_REQUEST,
\* INTERNAL_SERVER_ERROR) leaves the procedure with that same code, and any other
\* exception leaves it as INTERNAL_SERVER_ERROR.
C16_ErrorsKeepTheirKind ==
  \A i \in Slots :
    (req[i].pc = "done" /\ req[i].raised # None)
      => req[i].code = IF req[i].raised \in TRPCCodes THEN req[i].raised
                       ELSE "INTERNAL_SERVER_ERROR"

\* C17: when validateSignupLink has returned success, the usage_count of the row is
\* one more than the count the call read.
C17_ValidateIncrements ==
  \A i \in Slots :
    Returned(req[i], "validate") => signupLink[req[i].link].usage_count = req[i].count + 1

\* C18: a signup link with usage limit 1 is validated successfully at most once:
\* after the first success every validateSignupLink on it fails.
C18_SingleUseLink ==
  \A k \in DOMAIN signupLink : signupLink[k].usage_limit = 1 => validated[k] <= 1

\* C19: of the validateSignupLink calls in flight together on one link with usage
\* limit 1, no two return success.
C19_OneConcurrentWinner ==
  \A i, j \in Slots :
    (/\ i # j
     /\ Returned(req[i], "validate")
     /\ req[j].op = "validate" /\ req[j].link = req[i].link
     /\ signupLink[req[i].link].usage_limit = 1)
      => ~Returned(req[j], "validate")

C21_LimitLeavesLink ==
  [][\A i \in Slots :
       (/\ Arrives(i, "validate")
        /\ req'[i].link # NoId
        /\ signupLink[req'[i].link].expires_at >= now
        /\ signupLink[req'[i].link].usage_count >= signupLink[req'[i].link].usage_limit)
         => /\ req'[i].pc = "done"
            /\ req'[i].code = "BAD_REQUEST" /\ req'[i].msg = "limit"
            /\ UNCHANGED signupLink]_vars

C21_Witness ==
  \E i \in Slots : /\ req[i].op = "validate" /\ req[i].pc = "done"
                   /\ req[i].code = "BAD_REQUEST" /\ req[i].msg = "limit"
                   /\ signupLink[req[i].link].is_active
                   /\ signupLink[req[i].link].usage_count = 0
                   /\ signupLink[req[i].link].usage_limit = 0
                   /\ signupLink[req[i].link].expires_at >= now

\* C22: every active signup link has usage_count <= usage_limit.
C22_CountWithinLimit ==
  \A k \in DOMAIN signupLink :
    signupLink[k].is_active => signupLink[k].usage_count <= signupLink[k].usage_limit

\* C23: validateSignupLink called with the remote id and code of a fresh link (unused,
\* limit 1, not expired) finds that link and passes on to the contact fetch; when it
\* returns success, the profile it returns is that of the remote id the link was
\* issued for, which is the id the caller gave.
C23_RoundTrip ==
  [][\A i \in Slots :
       /\ Arrives(i, "validate") =>
            \A k \in DOMAIN signupLink :
              (/\ signupLink[k].zoho_id = req'[i].zoho
               /\ signupLink[k].login_code = req'[i].login
               /\ signupLink[k].usage_limit = 1 /\ signupLink[k].usage_count = 0
               /\ signupLink[k].expires_at >= now)
                => req'[i].link = k /\ req'[i].pc = "fetch"
       /\ (req[i].op = "validate" /\ req[i].pc = "fetch" /\ req'[i].code = "OK")
            => /\ req'[i].id = req[i].zoho
               /\ signupLink[req[i].link].zoho_id = req[i].zoho
               /\ signupLink[req[i].link].login_code = req[i].login]_vars

\* a link issued by generateSignupLink for seven days, validated on the day of issue
C23_Witness ==
  \E i \in Slots : /\ Returned(req[i], "validate")
                   /\ req[i].id = 1 /\ req[i].zoho = 1
                   /\ signupLink[req[i].link].expires_at = now + LinkTtlDays
                   /\ signupLink[req[i].link].usage_limit = 1
                   /\ validated[req[i].link] = 1

\* C24: an issuance that got as far as generating its code ends in success, also
\* when the code is that of an existing link.
C24_CollisionRetried ==
  \A i \in Slots :
    (req[i].op \in {"generate", "create"} /\ req[i].pc = "done" /\ req[i].login # None)
      => req[i].code = "OK"

\* C25: no two signup link rows hold the same code.
C25_CodesUnique ==
  \A j, k \in DOMAIN signupLink :
    j # k => signupLink[j].login_code # signupLink[k].login_code

\* two generateSignupLink calls in flight drew the same code: one row, one refusal
C25_Witness ==
  \E i, j \in Slots :
    /\ i # j
    /\ req[i].op = "generate" /\ req[i].pc = "done" /\ req[i].code = "OK"
    /\ req[j].op = "generate" /\ req[j].pc = "done" /\ req[j].msg = "create"
    /\ req[i].login = req[j].login
    /\ Cardinality({k \in DOMAIN signupLink : signupLink[k].login_code = req[i].login}) = 1

\* C26: the remote step of createOrUpdateContact or createSalesOrder whose response
\* carries no id ends the call with INTERNAL_SERVER_ERROR and writes nothing locally:
\* identity links, sales order rows and session status stay as they were.
C26_NoIdWritesNothing ==
  [][\A i \in Slots :
       (/\ req[i].op \in {"contact", "order"} /\ req[i].pc = "remote"
        /\ req'[i].msg = "noid")
         => /\ req'[i].pc = "done" /\ req'[i].code = "INTERNAL_SERVER_ERROR"
            /\ UNCHANGED <<status, zohoAccountLink, salesOrder>>]_vars

C26_Witness ==
  \E i \in Slots : /\ req[i].op = "order" /\ req[i].pc = "done"
                   /\ req[i].code = "INTERNAL_SERVER_ERROR" /\ req[i].msg = "noid"
                   /\ status[req[i].sid] = "contact_created"
                   /\ OrderRows(req[i].sid) = {}
                   /\ zohoSalesOrders = <<>>

\* C27: the response handler turns a non-2xx response into INTERNAL_SERVER_ERROR
\* "Zoho API error" carrying the message of the body when the body is an object with
\* code, message and status, and the status text otherwise; and it turns a 2xx
\* response whose body is not an object (absent, unparsable, null or a scalar) into
\* INTERNAL_SERVER_ERROR "invalid response format".
C27_HandlerMapping ==
  \A i \in Slots :
    (req[i].op = "handle" /\ req[i].pc = "done") =>
      LET b == req[i].body
          structured == b.parse = "object" /\ {"code", "message", "status"} \subseteq b.keys
      IN /\ ~req[i].rok =>
              /\ req[i].code = "INTERNAL_SERVER_ERROR" /\ req[i].raised = "zoho"
              /\ req[i].msg = IF structured THEN b.message ELSE req[i].statusText
         /\ (req[i].rok /\ b.parse \notin {"object", "array"}) =>
              req[i].code = "INTERNAL_SERVER_ERROR" /\ req[i].raised = "format"

\* the contact id of a getCRMData call cannot be resolved: none in the input and no
\* identity link with a remote id for the caller
Unresolved(r) == r.zoho = NoId /\ StoredId(r.caller) = NoId

\* C28: a getCRMData call that fetched returns success, and each part of its data
\* holds the value of its own fetch when that fetch was requested and returned one,
\* and is empty otherwise, whatever the other fetches did.
C28_SubFetchIsolated ==
  \A i \in Slots :
    (req[i].op = "crm" /\ req[i].pc = "done" /\ req[i].hasData) =>
      /\ req[i].code = "OK"
      /\ \A c \in AllCats :
           req[i].data[c] = "value"
             <=> (c = "contact" \/ c \in req[i].inc) /\ req[i].fetched[c] = "value"

C28_Witness ==
  \E i \in Slots : /\ req[i].op = "crm" /\ req[i].pc = "done" /\ req[i].code = "OK"
                   /\ req[i].inc = Categories
                   /\ req[i].fetched["deals"] = "error" /\ req[i].data["deals"] = "empty"
                   /\ req[i].fetched["contact"] = "empty" /\ req[i].data["contact"] = "empty"
                   /\ req[i].data["tasks"] = "value" /\ req[i].data["notes"] = "value"
                   /\ req[i].data["salesOrders"] = "value"

C30_WebhookApplied ==
  \A i \in Slots :
    /\ (/\ req[i].op = "billing" /\ req[i].pc = "done" /\ req[i].code = "200"
        /\ req[i].msg = "payment_completed")
         => status[req[i].sid] # "created"
    /\ (/\ req[i].op = "docusign" /\ req[i].pc = "done" /\ req[i].code = "200"
        /\ req[i].msg = "completed")
         => agreement[req[i].sid] = "completed"

\* C31: delivering a payment-completed event to the billing webhook leaves the session
\* either as it was or in payment_completed, leaves a session already in
\* payment_completed or beyond exactly as it was, and so a second delivery of the same
\* event ends in the status the first one ended in.
C31_DeliveryIdempotent ==
  [][\A i \in Slots :
       (Arrives(i, "billing") /\ req'[i].msg = "payment_completed") =>
         LET s == req'[i].sid IN
         /\ status'[s] \in {status[s], "payment_completed"}
         /\ status[s] \in {"payment_completed", "contact_created", "sales_order_created"}
              => status' = status
         /\ \A t \in Sessions \ {s} : status'[t] = status[t]]_vars

C31_Witness ==
  \E i \in Slots :
    /\ req[i].op = "billing" /\ req[i].pc = "done" /\ req[i].code = "200"
    /\ req[i].msg = "payment_completed"
    /\ status[req[i].sid] = "contact_created"

\* C32: a webhook delivery is answered in the step that receives it, with 200 when the
\* payload was read and 500 when reading it raised (unparsable body, no data object),
\* and it neither changes nor waits on the remote CRM.
C32_WebhookAnswers ==
  [][\A i \in Slots :
       (Arrives(i, "billing") \/ Arrives(i, "docusign")) =>
         /\ req'[i].pc = "done"
         /\ req'[i].raised \in {None, "malformed", "nodata"}
         /\ req'[i].code = (IF req'[i].raised = None THEN "200" ELSE "500")
         /\ UNCHANGED remote]_vars

C32_Witness ==
  \E i \in Slots :
    /\ req[i].op = "docusign" /\ req[i].pc = "done"
    /\ req[i].code = "500" /\ req[i].raised = "nodata"

\* C33: an owner's createSalesOrder passes its status gate, with both requirement flags
\* set, only on a session in contact_created; with only the payment flag set, exactly on
\* a session in payment_completed or contact_created; with neither flag set, on every
\* status; and a call the gate turns away ends at once with BAD_REQUEST
\* (PreconditionFailed), the remote CRM untouched.
C33_OrderGate ==
  [][\A i \in Slots :
       (Arrives(i, "order") /\ req'[i].caller = owner[req'[i].sid]) =>
         LET r == req'[i]
             st == status[r.sid]
             pass == r.pc = "link"
         IN /\ (r.rpc /\ r.rcc) => (pass <=> st = "contact_created")
            /\ (r.rpc /\ ~r.rcc) => (pass <=> st \in {"payment_completed", "contact_created"})
            /\ (~r.rpc /\ ~r.rcc) => pass
            /\ ~pass => /\ r.pc = "done" /\ r.code = "BAD_REQUEST"
                        /\ UNCHANGED <<remote, store>>]_vars

C33_Witness ==
  \E i \in Slots :
    /\ req[i].op = "order" /\ req[i].pc = "link" /\ req[i].rpc /\ ~req[i].rcc
    /\ status[req[i].sid] = "payment_completed"

\* position of a step in createOrUpdateContact and createSalesOrder, in program order
PcRank(op, pc) ==
  IF op = "contact"
  THEN CASE pc = "link" -> 1 [] pc = "remote" -> 2 [] pc = "upsert" -> 3
         [] pc = "status" -> 4 [] OTHER -> 5
  ELSE CASE pc = "link" -> 1 [] pc = "row" -> 2 [] pc = "remote" -> 3
         [] pc = "status" -> 4 [] pc = "save" -> 5 [] OTHER -> 6

\* C34: every step of a createOrUpdateContact or createSalesOrder call moves it
\* strictly forward in program order, so it passes its remote step at most once and
\* ends after boundedly many steps with one result code; the remote CRM changes only
\* in such a remote step, by exactly one contact created (none on an update) or
\* exactly one sales order created.
C34_NoRetry ==
  [][/\ \A i \in Slots :
          (req[i].op \in {"contact", "order"} /\ req'[i] # req[i]) =>
            \/ req'[i] = Idle /\ req[i].pc = "done"
            \/ /\ req'[i].op = req[i].op
               /\ PcRank(req[i].op, req'[i].pc) > PcRank(req[i].op, req[i].pc)
               /\ req'[i].pc = "done" =>
                    req'[i].code \in {"OK", "NOT_FOUND", "BAD_REQUEST", "INTERNAL_SERVER_ERROR"}
     /\ remote' # remote =>
          \E i \in Slots :
            /\ req[i].pc = "remote" /\ req'[i].pc # "remote"
            /\ \/ /\ req[i].op = "contact" /\ req[i].existing = NoId
                  /\ zohoContacts' = Append(zohoContacts, req[i].user)
                  /\ UNCHANGED zohoSalesOrders
               \/ /\ req[i].op = "order"
                  /\ zohoSalesOrders' = Append(zohoSalesOrders, req[i].sid)
                  /\ UNCHANGED zohoContacts]_vars

\* with the steps of a call in flight eventually taken, every createOrUpdateContact and
\* createSalesOrder call reaches its end
C34_Terminates ==
  \A i \in Slots : (req[i].op \in {"contact", "order"}) ~> (req[i].pc = "done")

\* an update of the stored contact went through and a sales order was created
C34_Witness ==
  /\ Len(zohoSalesOrders) = 1
  /\ \E i \in Slots :
       /\ req[i].op = "contact" /\ req[i].pc = "done" /\ req[i].code = "OK"
       /\ req[i].isUpdate /\ Len(zohoContacts) = 1

\* C35: with the default flags, however createOrUpdateContact and createSalesOrder are
\* called on a session, the remote CRM never holds more than one sales order created
\* for it, and a SalesOrder row that holds a remote id keeps that id.
C35_OneRemoteOrder ==
  [][/\ \A s \in Sessions : Cardinality(OrdersOf(s)') <= 1
     /\ \A r \in salesOrder : r.zohoSalesOrderId # NoId => r \in salesOrder']_vars

\* the run in which every read, write and remote call succeeds: the second
\* createSalesOrder returns a second remote order and the row holds its id
C35_SecondOrder ==
  \E i \in Slots :
    /\ req[i].op = "order" /\ req[i].pc = "done" /\ req[i].code = "OK"
    /\ req[i].rpc /\ req[i].rcc /\ req[i].id = 2
    /\ Cardinality(OrdersOf(req[i].sid)) = 2
    /\ okCalls[req[i].caller] = 2

\* C36: with calls served one after another, an identity link that holds a remote
\* contact id holds the same id after every step: no later createOrUpdateContact
\* changes or removes it.
C36_LinkIdStable ==
  [][\A u \in Principals :
       (\E r \in zohoAccountLink : r.userId = u /\ r.zohoUserId # NoId) =>
         \E r \in zohoAccountLink :
           /\ r.userId = u
           /\ \A q \in zohoAccountLink' : q.userId = u => q.zohoUserId = r.zohoUserId
           /\ \E q \in zohoAccountLink' : q.userId = u]_vars

\* a later call took the update path and its upsert wrote the link again
C36_Witness ==
  \E i \in Slots :
    /\ req[i].op = "contact" /\ req[i].pc = "status" /\ req[i].isUpdate
    /\ req[i].existing = 1
    /\ zohoAccountLink = {[userId |-> req[i].user, zohoUserId |-> 1]}
    /\ okCalls[req[i].user] >= 1

\* C37: the active flag of a signup link turns false only in a step of a
\* validateSignupLink call on that link taken after the link's expiry, never turns
\* true again, and a validateSignupLink call that returns success does so on a link
\* whose flag is true.
C37_ActiveFlag ==
  [][\A k \in DOMAIN signupLink :
       /\ (signupLink[k].is_active /\ ~signupLink'[k].is_active) =>
            /\ signupLink[k].expires_at < now
            /\ \E i \in Slots : /\ req[i].op = "validate" /\ req[i].link = k
                                /\ req'[i].pc = "done" /\ req'[i].code = "BAD_REQUEST"
       /\ ~signupLink[k].is_active => ~signupLink'[k].is_active
       /\ \A i \in Slots :
            (/\ req[i].op = "validate" /\ req[i].link = k /\ req[i].pc # "done"
             /\ req'[i].pc = "done" /\ req'[i].code = "OK") => signupLink[k].is_active]_vars

C39_NoRowWithoutContact ==
  [][\A i \in Slots :
       /\ Arrives(i, "generate") =>
            /\ signupLink' = signupLink
            /\ req'[i].pc = "create" => req'[i].zoho \in DOMAIN zohoContacts
            /\ req'[i].pc # "create" =>
                 /\ req'[i].pc = "done"
                 /\ req'[i].code \in {"NOT_FOUND", "INTERNAL_SERVER_ERROR"}
       /\ (req[i].op = "generate" /\ signupLink' # signupLink) =>
            /\ req[i].pc = "create"
            /\ Len(signupLink') = Len(signupLink) + 1
            /\ signupLink'[Len(signupLink')].zoho_id = req[i].zoho
            /\ \A k \in DOMAIN signupLink : signupLink'[k] = signupLink[k]
            /\ req'[i].pc = "done" /\ req'[i].code = "OK"]_vars

\* the lookup of an existing contact came back empty: the call failed, no row exists
C39_Witness ==
  \E i \in Slots :
    /\ req[i].op = "generate" /\ req[i].pc = "done" /\ req[i].code = "NOT_FOUND"
    /\ req[i].zoho \in DOMAIN zohoContacts
    /\ signupLink = <<>>

====
